---- MODULE Spec2Model ----
(***************************************************************************)
(* A model of src/defaulter.py: the DefaulterMiddleware of swift_defaulter. *)
(*                                                                         *)
(* Header names are modelled as sequences of tokens (the parts between the *)
(* hyphens); a token is a word with its letter case.  Python's             *)
(* str.lower(), str.startswith() and slicing by len(prefix) become Lower,  *)
(* StartsWith and StripPrefix on these sequences, the case-insensitive     *)
(* header mappings of swob (whose items() yields Title-Cased names) become *)
(* functions keyed by Title-cased names, and the plain dict of             *)
(* get_defaults stays keyed by the exact, case-preserving name.            *)
(*                                                                         *)
(* Header values are sequences of segments: a literal piece of text, a     *)
(* replacement field {name}, an auto-numbered field {} or a lone brace.    *)
(* The empty sequence is the empty string.                                 *)
(***************************************************************************)
EXTENDS Integers, Sequences, FiniteSets, TLC

\* conf:     self.conf, the cluster configuration: the use_formatting flag and
\*           the default-<type>-<attr> options, fixed at start-up
\* acctMeta: per account, the sysmeta the account server persists, as
\*           get_account_info returns it (lower-cased keys, prefix removed)
\* contMeta: the same per container
\* last:     the request handled last: the request as received, whether it
\*           was forwarded, passed through or failed, the headers it was
\*           forwarded with and the headers of the response returned
VARIABLES conf, acctMeta, contMeta, last

vars == <<conf, acctMeta, contMeta, last>>

None == "<None>"

(***************************************************************************)
(* Names                                                                   *)
(***************************************************************************)
\* a token: the word spelled in lower case, and the case it is written in
Tok(word, case) == [w |-> word, c |-> case]

\* a name written in lower case, as the string literals of the source are
Lw(words) == [i \in 1..Len(words) |-> Tok(words[i], "lower")]

\* a name written in Title-Case
Tw(words) == [i \in 1..Len(words) |-> Tok(words[i], "title")]

\* header.lower()
Lower(name) == [i \in 1..Len(name) |-> Tok(name[i].w, "lower")]

\* the name under which swob's header mappings list a header
Title(name) == [i \in 1..Len(name) |-> Tok(name[i].w, "title")]

\* name.startswith(prefix), for a prefix that ends with a hyphen
StartsWith(name, prefix) ==
    /\ Len(name) > Len(prefix)
    /\ SubSeq(name, 1, Len(prefix)) = prefix

\* name[len(prefix):]
StripPrefix(name, prefix) == SubSeq(name, Len(prefix) + 1, Len(name))

\* swift.common.request_helpers.get_sys_meta_prefix: 'x-<type>-sysmeta-'
get_sys_meta_prefix(req_type) == Lw(<<"x", req_type, "sysmeta">>)

(***************************************************************************)
(* Case-insensitive header mappings (req.headers, resp.headers)            *)
(***************************************************************************)
NoHeaders == [n \in {} |-> <<>>]

HeaderHas(h, name) == Title(name) \in DOMAIN h

\* headers[name] = value
HeaderSet(h, name, value) ==
    [n \in DOMAIN h \cup {Title(name)} |-> IF n = Title(name) THEN value ELSE h[n]]

\* a setdefault that assigns whether or not the header is present
HeaderSetDefaultClobbers(h, name, value) == HeaderSet(h, name, value)

\* headers.setdefault(name, value)
HeaderSetDefault(h, name, value) ==
    IF HeaderHas(h, name) THEN h ELSE HeaderSet(h, name, value)

(***************************************************************************)
(* Values and str.format                                                   *)
(***************************************************************************)
Lit(s) == [k |-> "lit", s |-> s]
Field(name) == [k |-> "field", s |-> name]
AutoField == [k |-> "field", s |-> ""]
LoneBrace == [k |-> "brace", s |-> "{"]

Str(s) == <<Lit(s)>>
EmptyStr == <<>>

\* value.format(**format_args), scanned left to right: the text with every
\* named field replaced, or the first exception met.
RECURSIVE FormatFrom(_, _, _, _)
FormatFrom(value, format_args, i, done) ==
    IF i > Len(value) THEN [raised |-> "none", val |-> done]
    ELSE LET seg == value[i] IN
         CASE seg.k = "lit" ->
                FormatFrom(value, format_args, i + 1, Append(done, seg))
           [] seg.k = "brace" -> [raised |-> "ValueError", val |-> value]
           [] seg.k = "field" /\ seg.s = "" ->
                [raised |-> "IndexError", val |-> value]
           [] seg.k = "field" /\ seg.s # "" /\ seg.s \notin DOMAIN format_args ->
                [raised |-> "KeyError", val |-> value]
           [] OTHER ->
                FormatFrom(value, format_args, i + 1,
                           Append(done, Lit(format_args[seg.s])))

Format(value, format_args) == FormatFrom(value, format_args, 1, <<>>)

(***************************************************************************)
(* The request and its path                                                *)
(***************************************************************************)
\* the req_type chosen by __call__ from the parsed path
ReqType(req) ==
    IF req.obj # None THEN "object"
    ELSE IF req.cont # None THEN "container"
    ELSE "account"

\* req.split_path(2, 4, True) raises ValueError: no account in the path
NoAccount(req) == req.acct = None

\* the format_args built by do_put: only the path components that are present
FormatArgs(req) ==
    LET present == {p \in {"account", "container", "object"} :
                      \/ p = "account" /\ req.acct # None
                      \/ p = "container" /\ req.cont # None
                      \/ p = "object" /\ req.obj # None}
    IN [p \in present |-> CASE p = "account" -> req.acct
                            [] p = "container" -> req.cont
                            [] OTHER -> req.obj]

(***************************************************************************)
(* The metadata provider: get_account_info(...)['sysmeta'] and             *)
(* get_container_info(...)['sysmeta'] give the persisted metadata with     *)
(* lower-cased keys and the 'x-<type>-sysmeta-' prefix removed.            *)
(***************************************************************************)
NoMeta == [n \in {} |-> <<>>]

AcctSysmeta(req) == acctMeta[req.acct]

ContSysmeta(req) ==
    IF ReqType(req) = "object" THEN contMeta[<<req.acct, req.cont>>] ELSE NoMeta

(***************************************************************************)
(* get_defaults                                                            *)
(***************************************************************************)
DefaultsPrefix(req_type) == Lw(<<"default", req_type>>)

\* the keys of one source that the loop of get_defaults keeps
MatchingKeys(src, prefix) == {key \in DOMAIN src : StartsWith(Lower(key), prefix)}

\* the value stored for one key: formatted when use_formatting is on and
\* format() succeeds, the raw value when format() raises KeyError
ResolvedValue(value, format_args) ==
    IF conf.use_formatting
    THEN LET f == Format(value, format_args)
         IN IF f.raised = "none" THEN f.val ELSE value
    ELSE value

\* format() raises something the except clause does not catch
FormatEscapes(value, format_args) ==
    /\ conf.use_formatting
    /\ Format(value, format_args).raised \notin {"none", "KeyError"}

\* the entries one source adds to the defaults dict, keyed by key[len(prefix):]
FromSource(src, prefix, format_args) ==
    LET keys == MatchingKeys(src, prefix)
        names == {StripPrefix(key, prefix) : key \in keys}
    IN [n \in names |->
          ResolvedValue(src[CHOOSE key \in keys : StripPrefix(key, prefix) = n],
                        format_args)]

\* dict update: the entries of later win, key by key
Overwrite(earlier, later) ==
    [n \in DOMAIN earlier \cup DOMAIN later |->
       IF n \in DOMAIN later THEN later[n] ELSE earlier[n]]

\* the defaults dict: conf, then account sysmeta, then container sysmeta
get_defaults(req, req_type, format_args) ==
    LET prefix == DefaultsPrefix(req_type)
    IN Overwrite(Overwrite(FromSource(conf.entries, prefix, format_args),
                           FromSource(AcctSysmeta(req), prefix, format_args)),
                 FromSource(ContSysmeta(req), prefix, format_args))

\* get_defaults ends with an exception instead of a dict
get_defaults_raises(req, req_type, format_args) ==
    LET prefix == DefaultsPrefix(req_type)
    IN \E src \in {conf.entries, AcctSysmeta(req), ContSysmeta(req)} :
         \E key \in MatchingKeys(src, prefix) :
           FormatEscapes(src[key], format_args)

(***************************************************************************)
(* do_post: capture of the declarations a request carries                  *)
(***************************************************************************)
\* a table that lets a container declare defaults for containers too
SubresourcesNotDownward(req_type) ==
    CASE req_type \in {"account", "container"} -> {"container", "object"}
      [] OTHER -> {}

Subresources(req_type) ==
    CASE req_type = "account" -> {"container", "object"}
      [] req_type = "container" -> {"object"}
      [] OTHER -> {}

\* the two passes in the other order: a set header would win over a clear
header_formats_clear_first ==
    << [fmt |-> <<"x", "remove", "default">>, clear |-> TRUE],
       [fmt |-> <<"x", "default">>, clear |-> FALSE] >>

header_formats ==
    << [fmt |-> <<"x", "default">>, clear |-> FALSE],
       [fmt |-> <<"x", "remove", "default">>, clear |-> TRUE] >>

\* the sysmeta_header built for one matching header
SysmetaHeader(req_type, subresource, header, prefix) ==
    get_sys_meta_prefix(req_type) \o Lw(<<"default", subresource>>)
        \o StripPrefix(header, prefix)

\* one pass of the outer loop: every header of the request that matches the
\* format for some subresource writes its sysmeta header.  Two headers of one
\* pass never write the same sysmeta header, so the order does not show.
CapturePass(h, req_type, format) ==
    LET hits == {hs \in (DOMAIN h) \X Subresources(req_type) :
                   StartsWith(Lower(hs[1]), Lw(format.fmt \o <<hs[2]>>))}
        target(hs) == Title(SysmetaHeader(req_type, hs[2], hs[1],
                                          Lw(format.fmt \o <<hs[2]>>)))
        targets == {target(hs) : hs \in hits}
    IN [n \in DOMAIN h \cup targets |->
          IF n \in targets
          THEN IF format.clear THEN EmptyStr
               ELSE h[(CHOOSE hs \in hits : target(hs) = n)[1]]
          ELSE h[n]]

\* the request headers do_post forwards
Capture(h, req_type) ==
    IF req_type = "object" THEN h
    ELSE CapturePass(CapturePass(h, req_type, header_formats[1]),
                     req_type, header_formats[2])

(***************************************************************************)
(* do_put: the defaults are set on the request in the dict's order         *)
(***************************************************************************)
Orders(S) ==
    {ord \in [1..Cardinality(S) -> S] :
       \A i, j \in 1..Cardinality(S) : ord[i] = ord[j] => i = j}

RECURSIVE SetDefaults(_, _, _, _)
SetDefaults(h, defaults, ord, i) ==
    IF i > Len(ord) THEN h
    ELSE SetDefaults(HeaderSetDefault(h, ord[i], defaults[ord[i]]),
                     defaults, ord, i + 1)

(***************************************************************************)
(* The downstream pipeline: the account and container servers persist the  *)
(* sysmeta headers of a PUT or POST and return the resource's metadata     *)
(***************************************************************************)
\* the sysmeta a forwarded request carries for its own resource type
CarriedSysmeta(h, req_type) ==
    LET prefix == get_sys_meta_prefix(req_type)
        hs == {n \in DOMAIN h : StartsWith(Lower(n), prefix)}
    IN [key \in {StripPrefix(Lower(n), prefix) : n \in hs} |->
          h[CHOOSE n \in hs : StripPrefix(Lower(n), prefix) = key]]

Persists(req) == req.method \in {"PUT", "POST"} /\ ReqType(req) # "object"

AcctMetaAfter(req, fwd) ==
    IF Persists(req) /\ ReqType(req) = "account"
    THEN [acctMeta EXCEPT ![req.acct] = Overwrite(@, CarriedSysmeta(fwd, "account"))]
    ELSE acctMeta

ContMetaAfter(req, fwd) ==
    IF Persists(req) /\ ReqType(req) = "container"
    THEN [contMeta EXCEPT ![<<req.acct, req.cont>>] =
            Overwrite(@, CarriedSysmeta(fwd, "container"))]
    ELSE contMeta

\* the headers of the response of req.get_response(self.app)
ResponseHeaders(req, am, cm) ==
    LET req_type == ReqType(req)
        meta == CASE req_type = "account" -> am[req.acct]
                  [] req_type = "container" -> cm[<<req.acct, req.cont>>]
                  [] OTHER -> NoMeta
        name(key) == Title(get_sys_meta_prefix(req_type) \o key)
    IN [n \in {name(key) : key \in DOMAIN meta} |->
          meta[CHOOSE key \in DOMAIN meta : name(key) = n]]

(***************************************************************************)
(* get_response_and_translate                                              *)
(***************************************************************************)
\* a translation that drops the subresource from the client-facing name
TranslateDropsSubresource(resp, req_type) ==
    LET prefix == get_sys_meta_prefix(req_type) \o Lw(<<"default">>)
        hits == {n \in DOMAIN resp : StartsWith(Lower(n), prefix)}
        client_header(n) ==
            Title(Lw(<<"x", "default">>) \o Tail(StripPrefix(n, prefix)))
        added == {client_header(n) : n \in hits}
    IN [n \in DOMAIN resp \cup added |->
          IF n \in added
          THEN resp[CHOOSE m \in hits : client_header(m) = n]
          ELSE resp[n]]

Translate(resp, req_type) ==
    LET prefix == get_sys_meta_prefix(req_type) \o Lw(<<"default">>)
        hits == {n \in DOMAIN resp : StartsWith(Lower(n), prefix)}
        client_header(n) == Title(Lw(<<"x", "default">>) \o StripPrefix(n, prefix))
        added == {client_header(n) : n \in hits}
    IN [n \in DOMAIN resp \cup added |->
          IF n \in added
          THEN resp[CHOOSE m \in hits : client_header(m) = n]
          ELSE resp[n]]

(***************************************************************************)
(* The bounded universe of requests and configurations                     *)
(***************************************************************************)
Accounts == {"acct", "other_acct"}
Containers == {"foo", "bar"}

Path(a, c, o) == [acct |-> a, cont |-> c, obj |-> o]

\* /info has no account; the rest are the paths of the module docstring
InfoPath == Path(None, None, None)
Paths ==
    { Path("acct", None, None), Path("acct", "foo", None),
      Path("acct", "foo", "o"), Path("acct", "bar", "o"),
      Path("other_acct", "foo", "o"), InfoPath }

Methods == {"GET", "POST", "PUT"}

XDeleteAfter == Tw(<<"x", "delete", "after">>)
Foo == Tw(<<"foo">>)
SetObject == Tw(<<"x", "default", "object">>) \o XDeleteAfter
ClearObject == Tw(<<"x", "remove", "default", "object">>) \o XDeleteAfter
SetContainer == Tw(<<"x", "default", "container">>) \o Foo
ClearContainer == Tw(<<"x", "remove", "default", "container">>) \o Foo

Hdr1(n, v) == [x \in {Title(n)} |-> v]
Hdr2(n1, v1, n2, v2) == [x \in {Title(n1), Title(n2)} |-> IF x = Title(n1) THEN v1 ELSE v2]

Req(m, p, h) ==
    [method |-> m, acct |-> p.acct, cont |-> p.cont, obj |-> p.obj, headers |-> h]

RealPaths == Paths \ {InfoPath}
ObjectPaths == {p \in RealPaths : p.obj # None}

\* the headers a client declares or clears defaults with
Declarations ==
    {Hdr1(SetObject, Str("2592000")), Hdr1(SetObject, Str("86400")),
     Hdr1(ClearObject, Str("1")), Hdr1(SetContainer, Str("bar")),
     Hdr1(ClearContainer, Str("1")),
     Hdr2(SetObject, Str("86400"), ClearObject, Str("1")),
     Hdr2(SetContainer, Str("bar"), ClearContainer, Str("1"))}

Requests ==
    {Req("GET", p, h) : p \in Paths, h \in {NoHeaders, Hdr1(SetObject, Str("3600"))}}
    \cup {Req("POST", p, h) :
            p \in {Path("acct", None, None), Path("acct", "foo", None)},
            h \in Declarations}
    \cup {Req("POST", Path("acct", "foo", "o"), h) :
            h \in {Hdr1(SetObject, Str("86400")), Hdr1(ClearObject, Str("1"))}}
    \cup {Req("PUT", p, h) :
            p \in ObjectPaths,
            h \in {NoHeaders, Hdr1(XDeleteAfter, Str("3600")),
                   Hdr1(SetObject, Str("3600"))}}
    \cup {Req("PUT", Path("acct", "foo", None), h) :
            h \in {NoHeaders, Hdr1(Foo, Str("baz")), Hdr1(SetObject, Str("86400")),
                   Hdr1(SetContainer, Str("bar")), Hdr1(ClearObject, Str("1"))}}
    \cup {Req("PUT", Path("acct", None, None), h) :
            h \in {NoHeaders, Hdr1(SetObject, Str("2592000")),
                   Hdr1(SetContainer, Str("bar"))}}

Entry(key, v) == [x \in {key} |-> v]

\* cluster configurations: none; an object default whose option name is
\* written in lower case, or in the case the header is usually written in;
\* and formatting switched on with a container default of "{}"
Configs ==
    { [use_formatting |-> FALSE, entries |-> NoMeta],
      [use_formatting |-> FALSE,
       entries |-> Entry(Lw(<<"default", "object", "x", "delete", "after">>), Str("604800"))],
      [use_formatting |-> FALSE,
       entries |-> Entry(Lw(<<"default", "object">>) \o XDeleteAfter, Str("604800"))],
      [use_formatting |-> TRUE,
       entries |-> Entry(Lw(<<"default", "container", "foo">>), <<AutoField>>)] }

\* the universe for use_formatting: values with replacement fields
VersionsLocation == <<Lit("."), Field("container"), Lit("_versions")>>
ContainerAndObject == <<Field("container"), Lit("/"), Field("object")>>

FmtValues == {VersionsLocation, ContainerAndObject, <<AutoField>>, <<LoneBrace>>, Str("bar")}

FmtConfigs ==
    { [use_formatting |-> TRUE, entries |-> NoMeta],
      [use_formatting |-> TRUE,
       entries |-> Entry(Lw(<<"default", "container", "foo">>), VersionsLocation)] }

FmtRequests ==
    {Req("GET", p, NoHeaders) :
        p \in {InfoPath, Path("acct", None, None), Path("acct", "foo", None)}}
    \cup {Req("POST", Path("acct", None, None), Hdr1(n, v)) :
            n \in {SetObject, SetContainer}, v \in FmtValues}
    \cup {Req("POST", Path("acct", "foo", None), Hdr1(SetObject, v)) : v \in FmtValues}
    \cup {Req("PUT", p, NoHeaders) : p \in RealPaths}
    \cup {Req("PUT", Path("acct", "foo", "o"), Hdr1(XDeleteAfter, Str("3600"))),
          Req("PUT", Path("acct", "foo", None), Hdr1(Foo, Str("baz")))}

(***************************************************************************)
(* The state machine: one action per handler                               *)
(***************************************************************************)
NoRequest ==
    [method |-> None, acct |-> None, cont |-> None, obj |-> None, headers |-> NoHeaders]

Init ==
    /\ conf \in Configs
    /\ acctMeta = [a \in Accounts |-> NoMeta]
    /\ contMeta = [ac \in Accounts \X Containers |-> NoMeta]
    /\ last = [req |-> NoRequest, status |-> "none", fwd |-> NoHeaders, resp |-> NoHeaders]

\* req.get_response(self.app) with the headers fwd, then the translation; the
\* response carries the resource's persisted metadata, or (an error, a
\* response without metadata) none of it
Forward(req, fwd) ==
    /\ acctMeta' = AcctMetaAfter(req, fwd)
    /\ contMeta' = ContMetaAfter(req, fwd)
    /\ \E carried \in {ResponseHeaders(req, acctMeta', contMeta'), NoHeaders} :
         last' = [req |-> req, status |-> "forwarded", fwd |-> fwd,
                  resp |-> Translate(carried, ReqType(req))]
    /\ UNCHANGED conf

\* __call__ when split_path raises ValueError: the app answers, untouched
NoPath(req) ==
    /\ NoAccount(req)
    /\ last' = [req |-> req, status |-> "passthrough", fwd |-> req.headers,
                resp |-> NoHeaders]
    /\ UNCHANGED <<conf, acctMeta, contMeta>>

\* a dispatch that sends every method through the POST flow
GetResponseAndTranslateCaptures(req) ==
    /\ ~NoAccount(req)
    /\ req.method \notin {"POST", "PUT"}
    /\ Forward(req, Capture(req.headers, ReqType(req)))

\* any method without a do_<method> handler
GetResponseAndTranslate(req) ==
    /\ ~NoAccount(req)
    /\ req.method \notin {"POST", "PUT"}
    /\ Forward(req, req.headers)

DoPost(req) ==
    /\ ~NoAccount(req)
    /\ req.method = "POST"
    /\ Forward(req, Capture(req.headers, ReqType(req)))

\* do_put when get_defaults returns
DoPut(req) ==
    /\ ~NoAccount(req)
    /\ req.method = "PUT"
    /\ ~get_defaults_raises(req, ReqType(req), FormatArgs(req))
    /\ LET defaults == get_defaults(req, ReqType(req), FormatArgs(req))
       IN \E ord \in Orders(DOMAIN defaults) :
            Forward(req, Capture(SetDefaults(req.headers, defaults, ord, 1),
                                 ReqType(req)))

\* do_put when get_defaults raises: the request is not forwarded
DoPutFails(req) ==
    /\ ~NoAccount(req)
    /\ req.method = "PUT"
    /\ get_defaults_raises(req, ReqType(req), FormatArgs(req))
    /\ last' = [req |-> req, status |-> "error", fwd |-> NoHeaders, resp |-> NoHeaders]
    /\ UNCHANGED <<conf, acctMeta, contMeta>>

Handle(req) ==
    \/ NoPath(req)
    \/ GetResponseAndTranslate(req)
    \/ DoPost(req)
    \/ DoPut(req)
    \/ DoPutFails(req)

Next == \E req \in Requests : Handle(req)

Spec == Init /\ [][Next]_vars

\* the same handlers with use_formatting on and values that hold fields
InitFmt ==
    /\ conf \in FmtConfigs
    /\ acctMeta = [a \in Accounts |-> NoMeta]
    /\ contMeta = [ac \in Accounts \X Containers |-> NoMeta]
    /\ last = [req |-> NoRequest, status |-> "none", fwd |-> NoHeaders, resp |-> NoHeaders]

NextFmt == \E req \in FmtRequests : Handle(req)

SpecFmt == InitFmt /\ [][NextFmt]_vars

(***************************************************************************)
(* Properties                                                              *)
(***************************************************************************)
AttrNames == {XDeleteAfter, Foo}
ResourceTypes == {"account", "container", "object"}

Forwarded(method, req_type) ==
    /\ last.status = "forwarded"
    /\ last.req.method = method
    /\ ReqType(last.req) = req_type

\* the request did not carry A and the forwarded request has no A either
Absent(A) == ~HeaderHas(last.fwd, A)

\* the forwarded request carries A with value v
Applied(A, v) == HeaderHas(last.fwd, A) /\ last.fwd[Title(A)] = v

\* src declares a default for attribute A of subresource sub, in any letter case
DeclKey(sub, A) == Lw(<<"default", sub>>) \o Lower(A)
Declares(src, sub, A) == \E key \in DOMAIN src : Lower(key) = DeclKey(sub, A)
DeclaredValue(src, sub, A) ==
    src[CHOOSE key \in DOMAIN src : Lower(key) = DeclKey(sub, A)]

LastAcctMeta == acctMeta[last.req.acct]
LastContMeta == contMeta[<<last.req.acct, last.req.cont>>]

\* the persisted-metadata default headers the middleware added to the request
WrittenDefaultKeys ==
    {n \in DOMAIN last.fwd \ DOMAIN last.req.headers :
       \E t \in ResourceTypes :
         StartsWith(Lower(n), get_sys_meta_prefix(t) \o Lw(<<"default">>))}

IsDefaultKey(n, scope, sub) ==
    StartsWith(Lower(n), get_sys_meta_prefix(scope) \o Lw(<<"default", sub>>))

\* C1: an object PUT that does not carry A is forwarded with the container's
\* declared value for A if the container declared A, otherwise the account's,
\* otherwise the cluster configuration's, otherwise without A.
C1_Precedence ==
    \A A \in AttrNames :
      (Forwarded("PUT", "object") /\ ~HeaderHas(last.req.headers, A)) =>
        IF Declares(LastContMeta, "object", A)
        THEN Applied(A, DeclaredValue(LastContMeta, "object", A))
        ELSE IF Declares(LastAcctMeta, "object", A)
        THEN Applied(A, DeclaredValue(LastAcctMeta, "object", A))
        ELSE IF Declares(conf.entries, "object", A)
        THEN Applied(A, DeclaredValue(conf.entries, "object", A))
        ELSE Absent(A)

\* C2: when the container stores the empty-string tombstone for A and the
\* account or the cluster configuration declares A, an object PUT without A
\* is forwarded with A empty.
C2_TombstoneStopsInheritance ==
    \A A \in AttrNames :
      ( /\ Forwarded("PUT", "object")
        /\ ~HeaderHas(last.req.headers, A)
        /\ Declares(LastContMeta, "object", A)
        /\ DeclaredValue(LastContMeta, "object", A) = EmptyStr
        /\ \/ Declares(LastAcctMeta, "object", A)
           \/ Declares(conf.entries, "object", A) )
      => Applied(A, EmptyStr)

\* C3: every header a PUT carried is forwarded with exactly the client's
\* value, whatever defaults are resolvable for it.
C3_NonClobber ==
    (last.status = "forwarded" /\ last.req.method = "PUT") =>
      \A n \in DOMAIN last.req.headers :
        n \in DOMAIN last.fwd /\ last.fwd[n] = last.req.headers[n]

\* C3 witness: an object PUT carried X-Delete-After while the account declared
\* another value for it, and was forwarded with the client's value.
C3_Witness ==
    /\ Forwarded("PUT", "object")
    /\ HeaderHas(last.req.headers, XDeleteAfter)
    /\ Declares(LastAcctMeta, "object", XDeleteAfter)
    /\ DeclaredValue(LastAcctMeta, "object", XDeleteAfter) = Str("2592000")
    /\ Applied(XDeleteAfter, Str("3600"))

\* C4 as stated: once the account stores the container default Foo, every
\* response for that account that carries the persisted metadata header
\* exposes X-Default-Foo with the stored value.
C4_ExposesXDefaultFoo ==
    ( /\ last.status = "forwarded"
      /\ ReqType(last.req) = "account"
      /\ Declares(LastAcctMeta, "container", Foo)
      /\ HeaderHas(last.resp, Lw(<<"x", "account", "sysmeta", "default", "container">>) \o Foo) )
    => /\ HeaderHas(last.resp, Lw(<<"x", "default">>) \o Foo)
       /\ last.resp[Title(Lw(<<"x", "default">>) \o Foo)]
            = DeclaredValue(LastAcctMeta, "container", Foo)

\* C4 amended: every default the account stores is exposed, on every response
\* for that account that carries its persisted metadata header, under
\* x-default-<subresource>-<attr>, the name it was declared with:
\* X-Default-Container-Foo for the container default Foo.
C4_ExposesDeclaredName ==
    (last.status = "forwarded" /\ ReqType(last.req) = "account") =>
      \A sub \in {"container", "object"}, A \in AttrNames :
        ( /\ Declares(LastAcctMeta, sub, A)
          /\ HeaderHas(last.resp, Lw(<<"x", "account", "sysmeta", "default", sub>>) \o A) )
        => /\ HeaderHas(last.resp, Lw(<<"x", "default", sub>>) \o A)
           /\ last.resp[Title(Lw(<<"x", "default", sub>>) \o A)]
                = DeclaredValue(LastAcctMeta, sub, A)

\* C4 witness: a GET of the account after X-Default-Container-Foo: bar was
\* posted answers with X-Default-Container-Foo: bar.
C4_Witness ==
    /\ Forwarded("GET", "account")
    /\ Declares(LastAcctMeta, "container", Foo)
    /\ HeaderHas(last.resp, Lw(<<"x", "account", "sysmeta", "default", "container">>) \o Foo)
    /\ HeaderHas(last.resp, SetContainer)
    /\ last.resp[SetContainer] = Str("bar")

\* C5: with 2592000 declared on the account and 86400 on the container, an
\* object PUT that carries X-Default-Object-X-Delete-After: 3600 is forwarded
\* with X-Delete-After: 3600.
C5_PutCarriedDefaultApplies ==
    ( /\ Forwarded("PUT", "object")
      /\ HeaderHas(last.req.headers, SetObject)
      /\ last.req.headers[SetObject] = Str("3600")
      /\ Declares(LastAcctMeta, "object", XDeleteAfter)
      /\ DeclaredValue(LastAcctMeta, "object", XDeleteAfter) = Str("2592000")
      /\ Declares(LastContMeta, "object", XDeleteAfter)
      /\ DeclaredValue(LastContMeta, "object", XDeleteAfter) = Str("86400") )
    => Applied(XDeleteAfter, Str("3600"))

\* C6: with use_formatting on, no PUT fails: whatever values the configuration,
\* the account and the container store, the PUT is forwarded.
C6_FormattingNeverFails ==
    (conf.use_formatting /\ last.req.method = "PUT") => last.status # "error"

\* C7 as stated: no PUT is forwarded with a persisted-metadata default key
\* that the middleware wrote.
C7_PutWritesNothing ==
    (last.status = "forwarded" /\ last.req.method = "PUT") => WrittenDefaultKeys = {}

\* C7 amended: persisted-metadata default keys are written only on POST and
\* PUT requests to an account or a container; a PUT at object depth, and a
\* request of any other method, is forwarded without one.
C7_OnlyPostOrPutAboveObjectsWrite ==
    WrittenDefaultKeys # {} =>
      /\ last.req.method \in {"POST", "PUT"}
      /\ ReqType(last.req) \in {"account", "container"}

\* C7 witness: a PUT of a container that carried a declaration was forwarded
\* with the persisted-metadata key written.
C7_Witness ==
    /\ Forwarded("PUT", "container")
    /\ HeaderHas(last.req.headers, SetObject)
    /\ WrittenDefaultKeys # {}

\* C8: every default key the middleware writes is an account key for
\* subresource container or object on an account request, or a container key
\* for subresource object on a container request; the stores hold no other
\* default key; so a container request writes nothing for
\* X-(Remove-)Default-Container-* and an object request writes nothing.
C8_ScopedDownward ==
    /\ \A n \in WrittenDefaultKeys :
         \/ /\ ReqType(last.req) = "account"
            /\ IsDefaultKey(n, "account", "container") \/ IsDefaultKey(n, "account", "object")
         \/ /\ ReqType(last.req) = "container"
            /\ IsDefaultKey(n, "container", "object")
    /\ \A a \in Accounts : \A key \in DOMAIN acctMeta[a] :
         \/ StartsWith(key, Lw(<<"default", "container">>))
         \/ StartsWith(key, Lw(<<"default", "object">>))
    /\ \A ac \in Accounts \X Containers : \A key \in DOMAIN contMeta[ac] :
         StartsWith(key, Lw(<<"default", "object">>))

\* C8 witness: a POST to a container that carried X-Default-Container-Foo was
\* forwarded with nothing written.
C8_Witness ==
    /\ Forwarded("POST", "container")
    /\ HeaderHas(last.req.headers, SetContainer)
    /\ WrittenDefaultKeys = {}
    /\ LastContMeta = NoMeta

\* C9: on a POST or PUT to an account or container, a clear header for a legal
\* subresource leaves the empty string under the sysmeta key, also next to a
\* set header for the same key; a set header without a clear leaves its value.
C9_ClearStoresEmptySetStoresValue ==
    ( /\ last.status = "forwarded"
      /\ last.req.method \in {"POST", "PUT"} )
    => \A scope \in {"account", "container"}, sub \in {"container", "object"},
          A \in AttrNames :
         ( /\ ReqType(last.req) = scope
           /\ scope = "container" => sub = "object" )
         => LET set == Lw(<<"x", "default", sub>>) \o A
                clear == Lw(<<"x", "remove", "default", sub>>) \o A
                key == Lw(<<"x", scope, "sysmeta", "default", sub>>) \o A
            IN /\ HeaderHas(last.req.headers, clear) => Applied(key, EmptyStr)
               /\ ( /\ HeaderHas(last.req.headers, set)
                    /\ ~HeaderHas(last.req.headers, clear) )
                  => Applied(key, last.req.headers[Title(set)])

\* C9 witness: a POST carried both the set and the clear header for one key
\* and the empty string was stored.
C9_Witness ==
    /\ Forwarded("POST", "account")
    /\ HeaderHas(last.req.headers, SetObject)
    /\ last.req.headers[SetObject] # EmptyStr
    /\ HeaderHas(last.req.headers, ClearObject)
    /\ DeclaredValue(LastAcctMeta, "object", XDeleteAfter) = EmptyStr

\* C10: when the cluster configuration and the account or container declare
\* the same attribute under names that differ only in letter case, an object
\* PUT without it is forwarded with the narrower scope's value.
C10_CaseInsensitiveAttribute ==
    \A A \in AttrNames :
      ( /\ Forwarded("PUT", "object")
        /\ ~HeaderHas(last.req.headers, A)
        /\ \E k \in DOMAIN conf.entries :
             /\ Lower(k) = DeclKey("object", A)
             /\ k # DeclKey("object", A)
        /\ Declares(LastAcctMeta, "object", A) \/ Declares(LastContMeta, "object", A) )
      => Applied(A, IF Declares(LastContMeta, "object", A)
                    THEN DeclaredValue(LastContMeta, "object", A)
                    ELSE DeclaredValue(LastAcctMeta, "object", A))

====
